---- MODULE Spec2Model ----
(***************************************************************************)
(* Model of pressorpass: the game state and the two primitive transitions  *)
(* (pyl.hpp, pyl.cpp), the algebra of spin results and spin operators, and *)
(* the node cache and scan of the search (pyl_search.hpp, pyl_search.cpp). *)
(*                                                                         *)
(* Prob (a C++ float) is modelled as an exact rational <<num, den>> in     *)
(* lowest terms.  A WeightedSet<T,K> (an unordered_map from T to K) is a   *)
(* function from its keys to their weights.  A State is a function from    *)
(* 0..2 to Player records; the bit field Player::reserved is always 0 and  *)
(* is left out, every other bit field is kept with its width.              *)
(***************************************************************************)
EXTENDS Integers, Sequences, FiniteSets, TLC

VARIABLES
    spin_op, \* Search::spin_op, the precomposed spin operators
    st,      \* the State the game walk is in
    prev,    \* the State the last operation was applied to
    val,     \* the SpinValue applied by the last spin
    dist,    \* the ProbState the last spin operator application produced
    op,      \* the last operation
    steps,   \* the number of operations so far
    svs,     \* three SpinValues (algebra)
    pows,    \* three operator powers, indices into spin_op (algebra)
    lhs,     \* result of the left-nested composition (algebra)
    rhs,     \* result of the right-nested composition (algebra)
    node_cache_, \* Search::node_cache_: the nodes and NodeCache::final_spin_nodes
    options_,    \* Search::options_
    order,       \* the order in which an unordered_map of States is iterated
    cache0,      \* node_cache_ before the last operation
    arg,         \* the argument of the last operation on the cache
    ret,         \* the node the last operation on the cache returned
    run          \* Search::run: its position, root node, depth, solved flag, counters

gameVars == <<st, prev, val, dist>>
algebraVars == <<svs, pows, lhs, rhs>>
searchVars == <<node_cache_, options_, order, cache0, arg, ret, run>>
vars == <<spin_op, op, steps, gameVars, algebraVars, searchVars>>

(***************************************************************************)
(* Bounds of the model.                                                    *)
(***************************************************************************)
MaxTotalSpins == 2      \* earned + passed turns over all players in an initial state
MaxSteps == 2           \* spins and passes of a game walk
MaxPower == 2           \* highest operator power composed in the algebra checks
MaxCalls == 3           \* operations on the node cache used directly
MaxDepth == 2           \* highest depth of a scan called directly
MaxRuns == 2            \* calls of Search::run on one Search
MaxPasses == 1          \* rounds of the loop of one Search::run
MaxLevels == 6          \* levels below the root that one pass of a whole run scans
MaxScanDepth == 3       \* highest depth of the scan of a root made as run makes it
ManyTurns == 8          \* earned turns of a player in an initial state with many turns
RawSpan == 500          \* raw scores run from 0 and around MaxScore over this span

(***************************************************************************)
(* Program constants.                                                      *)
(***************************************************************************)
num_players == 3
MinScoreUnit == 250
MaxScore == 20000
MaxWhammies == 4
MaxPassedSpins == 7
MaxBatch == 5

Min(a, b) == IF a < b THEN a ELSE b
Abs(a) == IF a < 0 THEN 0 - a ELSE a

(***************************************************************************)
(* Prob: exact rationals.                                                  *)
(***************************************************************************)
RECURSIVE GCD(_, _)
GCD(a, b) == IF b = 0 THEN a ELSE GCD(b, a % b)

Rat(n, d) == LET g == GCD(Abs(n), d) IN <<n \div g, d \div g>>
Zero == <<0, 1>>
One == <<1, 1>>
\* sums over the least common denominator, products after cancelling
ProbAdd(a, b) ==
    LET g == GCD(a[2], b[2])
    IN Rat(a[1] * (b[2] \div g) + b[1] * (a[2] \div g), (a[2] \div g) * b[2])
ProbSub(a, b) == ProbAdd(a, <<0 - b[1], b[2]>>)
ProbMul(a, b) ==
    LET g1 == GCD(Abs(a[1]), b[2])
        g2 == GCD(Abs(b[1]), a[2])
    IN <<(a[1] \div g1) * (b[1] \div g2), (a[2] \div g2) * (b[2] \div g1)>>
ProbDiv(a, b) == ProbMul(a, <<b[2], b[1]>>)
ProbLess(a, b) ==
    LET g == GCD(a[2], b[2]) IN a[1] * (b[2] \div g) < b[1] * (a[2] \div g)
ProbLeq(a, b) ==
    LET g == GCD(a[2], b[2]) IN a[1] * (b[2] \div g) <= b[1] * (a[2] \div g)

\* the sum of the weights f[x] for x in S
RECURSIVE SumOver(_, _)
SumOver(f, S) ==
    IF S = {} THEN Zero
    ELSE LET x == CHOOSE y \in S : TRUE
         IN ProbAdd(f[x], SumOver(f, S \ {x}))

(***************************************************************************)
(* SpinValue                                                               *)
(***************************************************************************)
SpinValue3_round_down(score, earned, taken) ==
    [score  |-> Min(MaxScore, (score \div MinScoreUnit) * MinScoreUnit),
     earned |-> earned % 256,
     taken  |-> taken % 256]

\* SpinValue (int score, int earned, int taken): rounds to the score unit
SpinValue3(score, earned, taken) ==
    [score  |-> Min(MaxScore, ((score + (MinScoreUnit \div 2)) \div MinScoreUnit) * MinScoreUnit),
     earned |-> earned % 256,
     taken  |-> taken % 256]

SpinValue4_unsaturated(score1, score2, earned, taken) ==
    [score  |-> (score1 + score2) % 65536,
     earned |-> earned % 256,
     taken  |-> taken % 256]

\* SpinValue (int score1, int score2, int earned, int taken)
SpinValue4(score1, score2, earned, taken) ==
    [score  |-> Min(MaxScore, score1 + score2),
     earned |-> earned % 256,
     taken  |-> taken % 256]

whammy(sv) == sv.score = 0

MulSpinValue_sum_taken(sv1, sv2) ==
    IF whammy(sv2) THEN sv2
    ELSE IF whammy(sv1) THEN SpinValue3(0, sv2.earned, sv1.taken + sv2.taken)
    ELSE SpinValue4(sv1.score, sv2.score, sv1.earned + sv2.earned, sv1.taken + sv2.taken)

\* SpinValue operator* (sv1, sv2): the effect of sv2 followed by sv1
MulSpinValue(sv1, sv2) ==
    IF whammy(sv2) THEN sv2
    ELSE IF whammy(sv1) THEN SpinValue3(0, sv2.earned, 1 + sv2.taken)
    ELSE SpinValue4(sv1.score, sv2.score, sv1.earned + sv2.earned, sv1.taken + sv2.taken)

(***************************************************************************)
(* WeightedSet and SpinOperator                                            *)
(***************************************************************************)
\* the board SpinTest
SpinTest ==
    (SpinValue3(0, 0, 1)    :> Rat(20, 100)) @@
    (SpinValue3(1000, 1, 1) :> Rat(30, 100)) @@
    (SpinValue3(2000, 0, 1) :> Rat(50, 100))

\* SpinOperator::operator() : this(sop), the terms u * t for t in sop, u in this
SpinOperatorCall(this, sop) ==
    LET pairs == (DOMAIN this) \X (DOMAIN sop)
        w == [p \in pairs |-> ProbMul(this[p[1]], sop[p[2]])]
        keys == {MulSpinValue(p[1], p[2]) : p \in pairs}
    IN [k \in keys |-> SumOver(w, {p \in pairs : MulSpinValue(p[1], p[2]) = k})]

\* Search::Search: spin_op[n] is the board composed with itself n times
\* (spin_op[0] is not used)
Search_spin_op(spin) ==
    LET s2 == SpinOperatorCall(spin, spin)
        s3 == SpinOperatorCall(spin, s2)
        s4 == SpinOperatorCall(spin, s3)
        s5 == SpinOperatorCall(spin, s4)
        s6 == SpinOperatorCall(spin, s5)
    IN (0 :> spin) @@ (1 :> spin) @@ (2 :> s2) @@ (3 :> s3) @@ (4 :> s4)
       @@ (5 :> s5) @@ (6 :> s6)

(***************************************************************************)
(* Player and State                                                        *)
(***************************************************************************)
Players == 0 .. (num_players - 1)

spins(p) == p.earned + p.passed

\* Player::take_spins
take_spins(p, count) ==
    IF p.passed = count THEN [p EXCEPT !.passed = 0]
    ELSE IF p.passed > count THEN [p EXCEPT !.passed = p.passed - count]
    ELSE [p EXCEPT !.earned = (p.earned - (count - p.passed)) % 16, !.passed = 0]

out(p) == p.whammies >= MaxWhammies

up_num(s) == s[0].up
opponent_num(s, n) == (up_num(s) + n + 1) % num_players
passee_num(s) ==
    IF s[opponent_num(s, 0)].score >= s[opponent_num(s, 1)].score
    THEN opponent_num(s, 0) ELSE opponent_num(s, 1)
total_spins(s) == spins(s[0]) + spins(s[1]) + spins(s[2])
can_pass(s) == s[up_num(s)].earned > 0 /\ s[up_num(s)].passed = 0
terminal(s) ==
    \/ spins(s[up_num(s)]) = 0
    \/ out(s[opponent_num(s, 0)]) /\ out(s[opponent_num(s, 1)])
third_place(s) ==
    /\ s[up_num(s)].score < s[opponent_num(s, 0)].score
    /\ s[up_num(s)].score < s[opponent_num(s, 1)].score
lead(s) == s[up_num(s)].score - s[passee_num(s)].score

\* the search for the next player started after the player up
change_player_cyclic(s) ==
    IF spins(s[up_num(s)]) = 0 /\ \E i \in Players : spins(s[i]) > 0
    THEN LET n == CHOOSE d \in 1 .. num_players :
                      /\ spins(s[(up_num(s) + d) % num_players]) > 0
                      /\ \A e \in 1 .. (d - 1) : spins(s[(up_num(s) + e) % num_players]) = 0
         IN [s EXCEPT ![0].up = (up_num(s) + n) % num_players]
    ELSE s

\* State::change_player
change_player(s) ==
    IF spins(s[up_num(s)]) = 0 /\ \E i \in Players : spins(s[i]) > 0
    THEN LET i == CHOOSE j \in Players :
                      /\ spins(s[j]) > 0
                      /\ \A k \in Players : spins(s[k]) > 0 => j <= k
         IN [s EXCEPT ![0].up = i]
    ELSE s

MulSpinState_copy_to_new_up(opv, sv) ==
    LET u  == up_num(sv)
        p1 == take_spins(sv[u], opv.taken)
        p2 == IF whammy(opv)
              THEN LET w == (p1.whammies + 1) % 16
                   IN [p1 EXCEPT !.score = 0,
                                 !.earned = IF w >= MaxWhammies THEN 0
                                            ELSE (p1.earned + p1.passed) % 16,
                                 !.passed = 0,
                                 !.whammies = w]
              ELSE [p1 EXCEPT !.score = Min(p1.score + opv.score, MaxScore),
                              !.earned = (p1.earned + opv.earned) % 16]
        r1 == change_player([sv EXCEPT ![u] = p2])
        r2 == [r1 EXCEPT ![up_num(r1)] = [r1[u] EXCEPT !.up = r1[up_num(r1)].up]]
    IN IF r2[u].whammies + total_spins(r2) < MaxWhammies
       THEN [r2 EXCEPT ![u].whammies = 0]
       ELSE r2

\* State operator* (const SpinValue& opv, const State& sv).  "up" is a
\* reference to the record of the player who was up, so "up = res.up()" copies
\* the record of the player who is now up into it.
MulSpinState(opv, sv) ==
    LET u  == up_num(sv)
        p1 == take_spins(sv[u], opv.taken)
        p2 == IF whammy(opv)
              THEN LET w == (p1.whammies + 1) % 16
                   IN [p1 EXCEPT !.score = 0,
                                 !.earned = IF w >= MaxWhammies THEN 0
                                            ELSE (p1.earned + p1.passed) % 16,
                                 !.passed = 0,
                                 !.whammies = w]
              ELSE [p1 EXCEPT !.score = Min(p1.score + opv.score, MaxScore),
                              !.earned = (p1.earned + opv.earned) % 16]
        r1 == change_player([sv EXCEPT ![u] = p2])
        r2 == [r1 EXCEPT ![u] = r1[up_num(r1)]]
    IN IF r2[u].whammies + total_spins(r2) < MaxWhammies
       THEN [r2 EXCEPT ![u].whammies = 0]
       ELSE r2

\* State operator* (const PassOperator& op, const State& sv)
MulPassState(sv) ==
    LET u  == up_num(sv)
        pe == passee_num(sv)
        r1 == [sv EXCEPT ![pe].passed = (sv[pe].passed + sv[u].earned) % 16]
    IN change_player([r1 EXCEPT ![u].earned = 0])

\* ProbState SpinOperator::operator* (const State& ds)
MulOperatorState(this, ds) ==
    LET keys == {MulSpinState(v, ds) : v \in DOMAIN this}
    IN [k \in keys |-> SumOver(this, {v \in DOMAIN this : MulSpinState(v, ds) = k})]

\* SpinNode::scan_branches: the number of spins resolved in one step
max_spins(s) ==
    IF s[up_num(s)].passed > 0 THEN Min(s[up_num(s)].passed, MaxBatch) ELSE 1

(***************************************************************************)
(* The game walk: the states the search visits from an initial state.      *)
(* Search::run advances turn control on the initial state; the root is a   *)
(* decision node whatever its state, so both primitive operations are      *)
(* applied to it.  Below the root NodeCache::create_node picks the node,   *)
(* so a spin is applied to every non-terminal state and a pass to every    *)
(* non-terminal state whose up player can pass.                            *)
(***************************************************************************)
Scores == {0, MaxScore}
Whammies == {0, 1, MaxWhammies - 1}
Triples(S) == S \X S \X S
SpinTriples(m) == {x \in Triples(0 .. m) : x[1] + x[2] + x[3] <= m}

\* State{ {{score, earned, passed, whammies, up}, {...}, {...}} }
MakeState(sc, e, p, w, u) ==
    [i \in Players |->
        [score |-> sc[i + 1], earned |-> e[i + 1], passed |-> p[i + 1],
         whammies |-> w[i + 1], up |-> IF i = 0 THEN u ELSE 0]]

\* whammy counts of the three players, at most one of them not zero
WhammyTriples == {w \in Triples(Whammies) : Cardinality({i \in 1 .. 3 : w[i] # 0}) <= 1}

\* the initial states with at most m turns in all
InitStates(m) ==
    {s \in {MakeState(sc, e, p, w, u) :
                sc \in Triples(Scores), e \in SpinTriples(m), p \in SpinTriples(m),
                w \in WhammyTriples, u \in Players} :
        total_spins(s) <= m}

\* initial states with many earned turns: the turn counters of a Player are
\* 4 bits wide
WideStates ==
    {MakeState(sc, e, <<0, 0, 0>>, <<0, 0, 0>>, u) :
        sc \in Triples(Scores), e \in Triples({0, ManyTurns}), u \in Players}

None == <<>>

InitGame ==
    /\ spin_op = Search_spin_op(SpinTest)
    /\ st \in InitStates(MaxTotalSpins) \cup WideStates
    /\ prev = st
    /\ val = None
    /\ dist = None
    /\ op = "init"
    /\ steps = 0
    /\ svs = None /\ pows = None /\ lhs = None /\ rhs = None
    /\ node_cache_ = None /\ options_ = None /\ order = None
    /\ cache0 = None /\ arg = None /\ ret = None /\ run = None

\* Search::run: init.change_player ()
RunChangePlayer ==
    /\ op = "init"
    /\ st' = change_player(st)
    /\ prev' = st
    /\ op' = "change_player"
    /\ UNCHANGED <<spin_op, steps, val, dist, algebraVars, searchVars>>

\* SpinNode::scan_branches: search.spin_op[max_spins] * state, one term of it
Spin ==
    /\ op # "init"
    /\ steps < MaxSteps
    /\ steps' = steps + 1
    /\ op = "change_player" \/ ~terminal(st)
    /\ \E v \in DOMAIN spin_op[max_spins(st)] :
        /\ st' = MulSpinState(v, st)
        /\ val' = v
    /\ dist' = MulOperatorState(spin_op[max_spins(st)], st)
    /\ prev' = st
    /\ op' = "spin"
    /\ UNCHANGED <<spin_op, algebraVars, searchVars>>

\* DecideNode::scan_branches: search.pass_op * state
Pass ==
    /\ op # "init"
    /\ steps < MaxSteps
    /\ steps' = steps + 1
    /\ op = "change_player" \/ (~terminal(st) /\ can_pass(st))
    /\ st' = MulPassState(st)
    /\ prev' = st
    /\ op' = "pass"
    /\ UNCHANGED <<spin_op, val, dist, algebraVars, searchVars>>

NextGame == RunChangePlayer \/ Spin \/ Pass

SpecGame == InitGame /\ [][NextGame]_vars

(***************************************************************************)
(* The game walk from an initial state in which a player is already out of *)
(* the game: such a player has lost the score to the last whammy and holds *)
(* no turn.                                                                *)
(***************************************************************************)
ElimWhammies == {0, MaxWhammies - 1, MaxWhammies}

\* the initial states with at most m turns in all and a player who is out
ElimStates(m) ==
    {s \in {MakeState(sc, e, p, w, u) :
                sc \in Triples(Scores), e \in SpinTriples(m), p \in SpinTriples(m),
                w \in Triples(ElimWhammies), u \in Players} :
        /\ total_spins(s) <= m
        /\ \E i \in Players : out(s[i])
        /\ \A i \in Players : out(s[i]) => s[i].score = 0 /\ spins(s[i]) = 0}

InitElim ==
    /\ spin_op = Search_spin_op(SpinTest)
    /\ st \in ElimStates(MaxTotalSpins)
    /\ prev = st
    /\ val = None
    /\ dist = None
    /\ op = "init"
    /\ steps = 0
    /\ svs = None /\ pows = None /\ lhs = None /\ rhs = None
    /\ node_cache_ = None /\ options_ = None /\ order = None
    /\ cache0 = None /\ arg = None /\ ret = None /\ run = None

SpecElim == InitElim /\ [][NextGame]_vars

(***************************************************************************)
(* The algebra of spin results and spin operators.                         *)
(***************************************************************************)
Powers == 1 .. MaxPower

InitAlgebra ==
    /\ spin_op = Search_spin_op(SpinTest)
    /\ \/ svs \in Triples(UNION {DOMAIN spin_op[n] : n \in Powers}) /\ pows = <<1, 1, 1>>
       \/ svs = <<SpinValue3(0, 0, 1), SpinValue3(0, 0, 1), SpinValue3(0, 0, 1)>>
          /\ pows \in Triples(Powers)
    /\ lhs = None /\ rhs = None
    /\ op = "init"
    /\ st = None /\ prev = None /\ val = None /\ dist = None /\ steps = 0
    /\ node_cache_ = None /\ options_ = None /\ order = None
    /\ cache0 = None /\ arg = None /\ ret = None /\ run = None

\* (sv1 * sv2) * sv3 and sv1 * (sv2 * sv3)
ComposeValues ==
    /\ op = "init"
    /\ lhs' = MulSpinValue(MulSpinValue(svs[1], svs[2]), svs[3])
    /\ rhs' = MulSpinValue(svs[1], MulSpinValue(svs[2], svs[3]))
    /\ op' = "mul"
    /\ UNCHANGED <<spin_op, steps, gameVars, svs, pows, searchVars>>

\* test_associativity: (A(B))(C) and A(B(C))
ComposeOperators ==
    /\ op = "init"
    /\ lhs' = SpinOperatorCall(SpinOperatorCall(spin_op[pows[1]], spin_op[pows[2]]), spin_op[pows[3]])
    /\ rhs' = SpinOperatorCall(spin_op[pows[1]], SpinOperatorCall(spin_op[pows[2]], spin_op[pows[3]]))
    /\ op' = "call"
    /\ UNCHANGED <<spin_op, steps, gameVars, svs, pows, searchVars>>

NextAlgebra == ComposeValues \/ ComposeOperators

SpecAlgebra == InitAlgebra /\ [][NextAlgebra]_vars

(***************************************************************************)
(* Spin values: the constructor applied to raw arguments, and two values   *)
(* composed in both orders.                                                *)
(***************************************************************************)
\* the raw scores handed to the constructor: those near 0, those of the spaces
\* of the board SpinFeb85, and those around MaxScore
BoardScores ==
    {500, 600, 700, 750, 800, 1000, 1250, 1400, 1500, 1750, 2000, 2250, 2500,
     3000, 4000, 5000}
RawScores ==
    (0 .. RawSpan) \cup BoardScores \cup ((MaxScore - RawSpan) .. (MaxScore + RawSpan))

\* the values composed: those of the operators spin_op[1 .. MaxPower], and
\* values with scores at and next to MaxScore
ComposedValues(ops) ==
    UNION {DOMAIN ops[n] : n \in Powers}
        \cup {SpinValue3(MaxScore, 0, 1), SpinValue3(MaxScore - MinScoreUnit, 1, 2)}

InitValues ==
    /\ spin_op = Search_spin_op(SpinTest)
    /\ \/ svs \in ComposedValues(spin_op) \X ComposedValues(spin_op)
       \/ svs \in RawScores \X {0, 1} \X {1}
    /\ pows = None /\ lhs = None /\ rhs = None
    /\ op = "init"
    /\ st = None /\ prev = None /\ val = None /\ dist = None /\ steps = 0
    /\ node_cache_ = None /\ options_ = None /\ order = None
    /\ cache0 = None /\ arg = None /\ ret = None /\ run = None

\* SpinValue (score, earned, taken)
Construct ==
    /\ op = "init"
    /\ Len(svs) = 3
    /\ lhs' = SpinValue3(svs[1], svs[2], svs[3])
    /\ op' = "construct"
    /\ UNCHANGED <<spin_op, steps, gameVars, svs, pows, rhs, searchVars>>

\* sv1 * sv2 and sv2 * sv1
ComposePair ==
    /\ op = "init"
    /\ Len(svs) = 2
    /\ lhs' = MulSpinValue(svs[1], svs[2])
    /\ rhs' = MulSpinValue(svs[2], svs[1])
    /\ op' = "compose"
    /\ UNCHANGED <<spin_op, steps, gameVars, svs, pows, searchVars>>

NextValues == Construct \/ ComposePair

SpecValues == InitValues /\ [][NextValues]_vars

(***************************************************************************)
(* The search: payoffs, nodes, the node cache, scan and payoff.            *)
(* A Node pointer is the index of the node in node_cache_.nodes, 0 is the  *)
(* null pointer.  The three maps of NodeCache are one sequence of nodes,   *)
(* each with its variant, in the order of creation.                        *)
(***************************************************************************)
\* F applied to the value of v, with v evaluated once
With(v, F(_)) == CHOOSE y \in {F(x) : x \in {v}} : TRUE

\* Payoff::null_value
null_value == <<0 - 1, 1>>
\* Payoff::Payoff ()
NullPayoff == <<null_value, Zero, Zero>>
\* Payoff::clear
ClearPayoff == <<Zero, Zero, Zero>>
\* Payoff::is_null
is_null(p) == ProbLeq(p[1], null_value)
\* Payoff::uncertainty
uncertainty(p) ==
    IF is_null(p) THEN One ELSE ProbSub(One, ProbAdd(ProbAdd(p[1], p[2]), p[3]))
\* Payoff::operator*=
PayoffScale(p, k) == <<ProbMul(p[1], k), ProbMul(p[2], k), ProbMul(p[3], k)>>
\* Payoff::operator+=
PayoffAdd(p, q) == <<ProbAdd(p[1], q[1]), ProbAdd(p[2], q[2]), ProbAdd(p[3], q[3])>>
\* Interval::Interval
Interval(t1, t2) == IF ProbLess(t1, t2) THEN <<t1, t2>> ELSE <<t2, t1>>
\* Payoff::range
range(p, n) == Interval(p[n + 1], ProbAdd(p[n + 1], uncertainty(p)))
overlaps_nonzero_width(i1, i2) == ProbLess(i1[1], i2[2]) /\ ProbLess(i2[1], i1[2])

\* Interval::overlaps
overlaps(i1, i2) == ~ProbLess(i1[2], i2[1]) /\ ~ProbLess(i2[2], i1[1])
merge_first(first, second) == first

\* merge
merge(first, second) ==
    [n \in 1 .. num_players |-> IF ProbLess(second[n], first[n]) THEN second[n] ELSE first[n]]

\* SearchOptions::SearchOptions
DefaultOptions ==
    [max_uncertainty |-> Rat(3, 100), max_lead |-> 15000, always_spin_third_place |-> TRUE,
     max_passed_spins_optimized |-> 7, merge_passed_spins |-> TRUE]

\* Player::hash: the bit fields of a Player as one integer
PlayerHash(p) ==
    p.score + 65536 * p.earned + 1048576 * p.passed + 16777216 * p.whammies
        + 268435456 * p.up
StateLess(a, b) ==
    LET h(s) == <<PlayerHash(s[0]), PlayerHash(s[1]), PlayerHash(s[2])>>
    IN \/ h(a)[1] < h(b)[1]
       \/ h(a)[1] = h(b)[1] /\ h(a)[2] < h(b)[2]
       \/ h(a)[1] = h(b)[1] /\ h(a)[2] = h(b)[2] /\ h(a)[3] < h(b)[3]
\* the keys of a ProbState in the order its unordered_map is iterated
RECURSIVE Iterate(_)
Iterate(S) ==
    IF S = {} THEN <<>>
    ELSE LET x == CHOOSE y \in S : \A z \in S \ {y} :
                      IF order = "ascending" THEN StateLess(y, z) ELSE StateLess(z, y)
         IN <<x>> \o Iterate(S \ {x})

\* Node::Node, TerminalNode::TerminalNode, DecideNode::DecideNode, SpinNode::SpinNode
NewNode(kind, ds) ==
    [kind |-> kind, state |-> ds, payoff_ |-> NullPayoff, visited_ |-> FALSE,
     branches |-> <<>>, if_play |-> 0, if_pass |-> 0]

\* NodeCache::NodeCache
NewNodeCache == [nodes |-> <<>>, final_spin_nodes |-> 0]

\* the entry of one of the maps of NodeCache for the key ds, 0 if there is none
Lookup(nc, kind, ds) ==
    LET f == {i \in 1 .. Len(nc.nodes) : nc.nodes[i].kind = kind /\ nc.nodes[i].state = ds}
    IN IF f = {} THEN 0 ELSE CHOOSE i \in f : \A j \in f : i <= j

\* a terminal node made without a look at the map
create_terminal_node_fresh(nc, ds) ==
    [nc |-> [nc EXCEPT !.nodes = Append(@, NewNode("terminal", ds))],
     node |-> Len(nc.nodes) + 1]

\* NodeCache::create_terminal_node
create_terminal_node(nc, ds) ==
    IF Lookup(nc, "terminal", ds) # 0 THEN [nc |-> nc, node |-> Lookup(nc, "terminal", ds)]
    ELSE [nc |-> [nc EXCEPT !.nodes = Append(@, NewNode("terminal", ds))],
          node |-> Len(nc.nodes) + 1]

\* NodeCache::create_spin_node
create_spin_node(nc, ds) ==
    IF Lookup(nc, "spin", ds) # 0 THEN [nc |-> nc, node |-> Lookup(nc, "spin", ds)]
    ELSE [nc |-> [nodes |-> Append(nc.nodes, NewNode("spin", ds)),
                  final_spin_nodes |-> IF total_spins(ds) = 1
                                       THEN nc.final_spin_nodes + 1
                                       ELSE nc.final_spin_nodes],
          node |-> Len(nc.nodes) + 1]

\* NodeCache::create_decide_node
create_decide_node(nc, ds) ==
    IF Lookup(nc, "decide", ds) # 0 THEN [nc |-> nc, node |-> Lookup(nc, "decide", ds)]
    ELSE [nc |-> [nc EXCEPT !.nodes = Append(@, NewNode("decide", ds))],
          node |-> Len(nc.nodes) + 1]

\* a node for an arbitrary state that is a chance node unless the state is terminal
create_node_no_decide(nc, ds) ==
    IF terminal(ds) THEN create_terminal_node(nc, ds) ELSE create_spin_node(nc, ds)

\* NodeCache::create_node
create_node(nc, ds) ==
    IF terminal(ds) THEN create_terminal_node(nc, ds)
    ELSE IF can_pass(ds) THEN create_decide_node(nc, ds)
    ELSE create_spin_node(nc, ds)

invalidate_all_but_terminal(nc) ==
    [nc EXCEPT !.nodes = [i \in 1 .. Len(nc.nodes) |->
        IF nc.nodes[i].kind = "terminal" THEN nc.nodes[i]
        ELSE [nc.nodes[i] EXCEPT !.visited_ = FALSE]]]

\* NodeCache::apply with Node::invalidate
invalidate_all(nc) ==
    [nc EXCEPT !.nodes = [i \in 1 .. Len(nc.nodes) |-> [nc.nodes[i] EXCEPT !.visited_ = FALSE]]]

\* SpinNode::scan_branches, the loop that fills the branches of node n from
\* the terms of next; coverage is kept in the result
RECURSIVE AddBranches(_, _, _, _, _, _)
AddBranches(nc, n, next, terms, i, coverage) ==
    IF i > Len(terms) THEN [nc |-> nc, coverage |-> coverage]
    ELSE IF terms[i] = nc.nodes[n].state
         THEN With(ProbSub(coverage, next[terms[i]]),
                   LAMBDA cov : AddBranches(nc, n, next, terms, i + 1, cov))
         ELSE With(create_node(nc, terms[i]), LAMBDA r :
              With([r.nc EXCEPT !.nodes[n].branches = Append(@, <<next[terms[i]], r.node>>)],
                   LAMBDA c : AddBranches(c, n, next, terms, i + 1, coverage)))

\* SpinNode::scan_branches, the part that runs when branches is empty
SpinNode_expand(nc, n) ==
    With(MulOperatorState(spin_op[max_spins(nc.nodes[n].state)], nc.nodes[n].state),
         LAMBDA next :
    With(Iterate(DOMAIN next), LAMBDA terms :
    With(AddBranches(nc, n, next, terms, 1, One), LAMBDA r :
        IF ProbLess(r.coverage, One)
        THEN [r.nc EXCEPT !.nodes[n].branches =
                 [i \in 1 .. Len(@) |-> <<ProbDiv(@[i][1], r.coverage), @[i][2]>>]]
        ELSE r.nc)))

\* DecideNode::scan_branches, the part that runs when both branches are null
DecideNode_expand_at_cap(nc, n) ==
    LET state == nc.nodes[n].state
    IN With(IF options_.max_lead # 0 /\ lead(state) >= options_.max_lead
            THEN [nc |-> nc, node |-> 0]
            ELSE create_spin_node(nc, state), LAMBDA play :
       With(IF options_.always_spin_third_place /\ third_place(state)
            THEN [nc |-> play.nc, node |-> 0]
            ELSE create_node(play.nc, MulPassState(state)), LAMBDA pass :
           [pass.nc EXCEPT !.nodes[n].if_play = play.node, !.nodes[n].if_pass = pass.node]))

DecideNode_expand(nc, n) ==
    LET state == nc.nodes[n].state
    IN With(IF options_.max_lead # 0 /\ lead(state) > options_.max_lead
            THEN [nc |-> nc, node |-> 0]
            ELSE create_spin_node(nc, state), LAMBDA play :
       With(IF options_.always_spin_third_place /\ third_place(state)
            THEN [nc |-> play.nc, node |-> 0]
            ELSE create_node(play.nc, MulPassState(state)), LAMBDA pass :
           [pass.nc EXCEPT !.nodes[n].if_play = play.node, !.nodes[n].if_pass = pass.node]))

RECURSIVE scan(_, _, _)
RECURSIVE ScanEach(_, _, _, _)

\* the loop over the successors of a node: node->scan (search, stop) for each
ScanEach(nc, succ, i, depth) ==
    IF i > Len(succ) THEN nc
    ELSE With(IF succ[i] = 0 THEN nc ELSE scan(nc, succ[i], depth),
              LAMBDA c : ScanEach(c, succ, i + 1, depth))

\* SpinNode::scan_branches
SpinNode_scan_branches(nc, n, depth) ==
    With([nc EXCEPT !.nodes[n].payoff_ = NullPayoff], LAMBDA c1 :
    With(IF c1.nodes[n].branches = <<>> THEN SpinNode_expand(c1, n) ELSE c1, LAMBDA c2 :
    With([i \in 1 .. Len(c2.nodes[n].branches) |-> c2.nodes[n].branches[i][2]], LAMBDA succ :
        ScanEach(c2, succ, 1, depth))))

\* DecideNode::scan_branches
DecideNode_scan_branches(nc, n, depth) ==
    With([nc EXCEPT !.nodes[n].payoff_ = NullPayoff], LAMBDA c1 :
    With(IF c1.nodes[n].if_pass = 0 /\ c1.nodes[n].if_play = 0
         THEN DecideNode_expand(c1, n) ELSE c1, LAMBDA c2 :
    With(<<c2.nodes[n].if_play, c2.nodes[n].if_pass>>, LAMBDA succ :
        ScanEach(c2, succ, 1, depth))))

scan_revisits(nc, n, depth) ==
    With([nc EXCEPT !.nodes[n].visited_ = TRUE], LAMBDA c1 :
    With(depth - 1, LAMBDA deeper :
        IF depth = 0 THEN c1
        ELSE IF ProbLeq(uncertainty(c1.nodes[n].payoff_), options_.max_uncertainty) THEN c1
        ELSE IF c1.nodes[n].kind = "spin" THEN SpinNode_scan_branches(c1, n, deeper)
        ELSE IF c1.nodes[n].kind = "decide" THEN DecideNode_scan_branches(c1, n, deeper)
        ELSE c1))

scan_without_uncertainty_stop(nc, n, depth) ==
    IF nc.nodes[n].visited_ THEN nc
    ELSE With([nc EXCEPT !.nodes[n].visited_ = TRUE], LAMBDA c1 :
         With(depth - 1, LAMBDA deeper :
            IF depth = 0 THEN c1
            ELSE IF c1.nodes[n].kind = "spin" THEN SpinNode_scan_branches(c1, n, deeper)
            ELSE IF c1.nodes[n].kind = "decide" THEN DecideNode_scan_branches(c1, n, deeper)
            ELSE c1))

\* Node::scan; depth is stop.depth
scan(nc, n, depth) ==
    IF nc.nodes[n].visited_ THEN nc
    ELSE With([nc EXCEPT !.nodes[n].visited_ = TRUE], LAMBDA c1 :
         With(depth - 1, LAMBDA deeper :
            IF depth = 0 THEN c1
            ELSE IF ProbLeq(uncertainty(c1.nodes[n].payoff_), options_.max_uncertainty) THEN c1
            ELSE IF c1.nodes[n].kind = "spin" THEN SpinNode_scan_branches(c1, n, deeper)
            ELSE IF c1.nodes[n].kind = "decide" THEN DecideNode_scan_branches(c1, n, deeper)
            ELSE c1))

RECURSIVE payoff(_, _)
RECURSIVE SpinNode_sum(_, _, _)

\* the loop of TerminalNode::calc_payoff without the test for players that are out
MaxCount_with_out(acc, player) ==
    IF player.score = acc.max THEN [acc EXCEPT !.count = @ + 1]
    ELSE IF player.score > acc.max THEN [max |-> player.score, count |-> 1]
    ELSE acc

\* TerminalNode::calc_payoff, one round of the loop that finds the highest
\* score of the players still in the game and counts the players holding it
MaxCount(acc, player) ==
    IF out(player) THEN acc
    ELSE IF player.score = acc.max THEN [acc EXCEPT !.count = @ + 1]
    ELSE IF player.score > acc.max THEN [max |-> player.score, count |-> 1]
    ELSE acc

\* TerminalNode::calc_payoff
TerminalNode_calc_payoff(nc, n) ==
    LET state == nc.nodes[n].state
        m == MaxCount(MaxCount(MaxCount([max |-> 0, count |-> 0], state[0]), state[1]),
                      state[2])
    IN [nc EXCEPT !.nodes[n].payoff_ =
            [i \in 1 .. num_players |->
                IF state[i - 1].score = m.max /\ ~out(state[i - 1])
                THEN Rat(1, m.count) ELSE Zero]]

\* SpinNode::calc_payoff, the loop over the branches from branch i on
SpinNode_sum(nc, n, i) ==
    IF i > Len(nc.nodes[n].branches) THEN nc
    ELSE With(payoff(nc, nc.nodes[n].branches[i][2]), LAMBDA r :
         With(PayoffScale(r.value, nc.nodes[n].branches[i][1]), LAMBDA p :
         With([r.nc EXCEPT !.nodes[n].payoff_ = PayoffAdd(@, p)], LAMBDA c :
             SpinNode_sum(c, n, i + 1))))

\* SpinNode::calc_payoff
SpinNode_calc_payoff(nc, n) ==
    With([nc EXCEPT !.nodes[n].payoff_ = ClearPayoff], LAMBDA c : SpinNode_sum(c, n, 1))

DecideNode_calc_payoff_stays_null(nc, n) ==
    LET if_play == nc.nodes[n].if_play
        if_pass == nc.nodes[n].if_pass
        up == up_num(nc.nodes[n].state)
    IN IF if_play = 0 /\ if_pass = 0 THEN nc
       ELSE IF if_play = 0
            THEN With(payoff(nc, if_pass), LAMBDA r : [r.nc EXCEPT !.nodes[n].payoff_ = r.value])
       ELSE IF if_pass = 0
            THEN With(payoff(nc, if_play), LAMBDA r : [r.nc EXCEPT !.nodes[n].payoff_ = r.value])
       ELSE With(payoff(nc, if_play), LAMBDA r1 :
            With(payoff(r1.nc, if_pass), LAMBDA r2 :
            LET win_play == r1.value[up + 1]
                win_pass == r2.value[up + 1]
            IN IF ProbLess(win_pass, win_play)
               THEN With(payoff(r2.nc, if_play), LAMBDA r :
                        [r.nc EXCEPT !.nodes[n].payoff_ = r.value])
               ELSE IF ProbLess(win_play, win_pass)
               THEN With(payoff(r2.nc, if_pass), LAMBDA r :
                        [r.nc EXCEPT !.nodes[n].payoff_ = r.value])
               ELSE With(payoff(r2.nc, if_pass), LAMBDA q1 :
                    With(payoff(q1.nc, if_play), LAMBDA q2 :
                        [q2.nc EXCEPT !.nodes[n].payoff_ = merge(q1.value, q2.value)]))))

\* DecideNode::calc_payoff
DecideNode_calc_payoff(nc, n) ==
    LET if_play == nc.nodes[n].if_play
        if_pass == nc.nodes[n].if_pass
        up == up_num(nc.nodes[n].state)
    IN IF if_play = 0 /\ if_pass = 0 THEN [nc EXCEPT !.nodes[n].payoff_ = ClearPayoff]
       ELSE IF if_play = 0
            THEN With(payoff(nc, if_pass), LAMBDA r : [r.nc EXCEPT !.nodes[n].payoff_ = r.value])
       ELSE IF if_pass = 0
            THEN With(payoff(nc, if_play), LAMBDA r : [r.nc EXCEPT !.nodes[n].payoff_ = r.value])
       ELSE With(payoff(nc, if_play), LAMBDA r1 :
            With(payoff(r1.nc, if_pass), LAMBDA r2 :
            LET win_play == r1.value[up + 1]
                win_pass == r2.value[up + 1]
            IN IF ProbLess(win_pass, win_play)
               THEN With(payoff(r2.nc, if_play), LAMBDA r :
                        [r.nc EXCEPT !.nodes[n].payoff_ = r.value])
               ELSE IF ProbLess(win_play, win_pass)
               THEN With(payoff(r2.nc, if_pass), LAMBDA r :
                        [r.nc EXCEPT !.nodes[n].payoff_ = r.value])
               ELSE With(payoff(r2.nc, if_pass), LAMBDA q1 :
                    With(payoff(q1.nc, if_play), LAMBDA q2 :
                        [q2.nc EXCEPT !.nodes[n].payoff_ = merge(q1.value, q2.value)]))))

\* Node::payoff: the cache after the call and the payoff returned
payoff(nc, n) ==
    IF ~is_null(nc.nodes[n].payoff_) THEN [nc |-> nc, value |-> nc.nodes[n].payoff_]
    ELSE With(IF nc.nodes[n].kind = "terminal" THEN TerminalNode_calc_payoff(nc, n)
              ELSE IF nc.nodes[n].kind = "spin" THEN SpinNode_calc_payoff(nc, n)
              ELSE DecideNode_calc_payoff(nc, n),
              LAMBDA c : [nc |-> c, value |-> c.nodes[n].payoff_])

\* DecideNode::solved
solved(nc, n) ==
    LET node == nc.nodes[n]
        up == up_num(node.state)
    IN IF is_null(node.payoff_) \/ (node.if_play = 0 /\ node.if_pass = 0) THEN FALSE
       ELSE IF node.if_pass = 0 \/ node.if_play = 0 THEN TRUE
       ELSE LET play == payoff(nc, node.if_play).value
                pass == payoff(nc, node.if_pass).value
            IN \/ ~overlaps(range(play, up), range(pass, up))
               \/ /\ ProbLeq(uncertainty(play), options_.max_uncertainty)
                  /\ ProbLeq(uncertainty(pass), options_.max_uncertainty)

decision_pass_first(nc, n) ==
    LET node == nc.nodes[n]
    IN IF node.if_pass # 0 /\ node.payoff_ = payoff(nc, node.if_pass).value THEN "PASS"
       ELSE IF node.if_play # 0 /\ node.payoff_ = payoff(nc, node.if_play).value THEN "PLAY"
       ELSE "UNDECIDED"

decision_by_comparison(nc, n) ==
    LET node == nc.nodes[n]
        up == up_num(node.state)
    IN IF node.if_play = 0 \/ node.if_pass = 0 THEN "UNDECIDED"
       ELSE IF ProbLess(payoff(nc, node.if_pass).value[up + 1], payoff(nc, node.if_play).value[up + 1])
            THEN "PLAY"
       ELSE IF ProbLess(payoff(nc, node.if_play).value[up + 1], payoff(nc, node.if_pass).value[up + 1])
            THEN "PASS"
       ELSE "UNDECIDED"

\* DecideNode::decision
decision(nc, n) ==
    LET node == nc.nodes[n]
    IN IF node.if_play # 0 /\ node.payoff_ = payoff(nc, node.if_play).value THEN "PLAY"
       ELSE IF node.if_pass # 0 /\ node.payoff_ = payoff(nc, node.if_pass).value THEN "PASS"
       ELSE "UNDECIDED"

(***************************************************************************)
(* The node cache used directly: any sequence of create calls, scans,      *)
(* payoff queries and resets of the visited markers.                       *)
(***************************************************************************)
Orders == {"ascending", "descending"}

\* the states handed to run
SearchStates ==
    {MakeState(sc, e, <<0, 0, 0>>, <<0, 0, 0>>, u) :
        sc \in {<<MaxScore, MaxScore, 0>>, <<0, MaxScore, 0>>},
        e \in {<<1, 0, 0>>, <<0, 1, 0>>, <<0, 0, 0>>, <<1, 1, 0>>},
        u \in {0, 1}}
    \cup {MakeState(<<MaxScore, 0, 0>>, <<0, 0, 0>>, p, <<0, 0, MaxWhammies - 1>>, 0) :
            p \in {<<0, 0, 2>>, <<1, 0, 1>>}}
    \cup {MakeState(<<0, 0, 0>>, <<0, 0, 0>>, <<0, 0, 0>>,
                     <<MaxWhammies, MaxWhammies, MaxWhammies>>, 0)}
    \cup {MakeState(<<0, MaxScore, MaxScore>>, <<1, 0, 0>>, <<0, 0, 0>>, <<0, 0, 0>>, 0)}

\* the states handed to the create calls: a decision state, a state with no
\* turns, a state with passed turns, a decision state of the player in third
\* place and a state with both opponents out
CacheStates ==
    {MakeState(<<MaxScore, MaxScore, 0>>, <<1, 0, 0>>, <<0, 0, 0>>, <<0, 0, 0>>, 0),
     MakeState(<<MaxScore, MaxScore, 0>>, <<0, 0, 0>>, <<0, 0, 0>>, <<0, 0, 0>>, 0),
     MakeState(<<MaxScore, 0, 0>>, <<0, 0, 0>>, <<1, 0, 1>>, <<0, 0, MaxWhammies - 1>>, 0),
     MakeState(<<0, MaxScore, MaxScore>>, <<1, 0, 0>>, <<0, 0, 0>>, <<0, 0, 0>>, 0),
     MakeState(<<MaxScore, 0, 0>>, <<1, 0, 0>>, <<0, 0, 0>>, <<0, MaxWhammies, MaxWhammies>>, 0)}

InitCache ==
    /\ spin_op = Search_spin_op(SpinTest)
    /\ node_cache_ = NewNodeCache
    /\ options_ = DefaultOptions
    /\ order \in Orders
    /\ cache0 = NewNodeCache
    /\ arg = None /\ ret = 0 /\ run = None
    /\ op = "init" /\ steps = 0
    /\ st = None /\ prev = None /\ val = None /\ dist = None
    /\ svs = None /\ pows = None /\ lhs = None /\ rhs = None

Called(name, a, r) ==
    /\ steps' = steps + 1
    /\ node_cache_' = r.nc
    /\ ret' = r.node
    /\ arg' = a
    /\ cache0' = node_cache_
    /\ op' = name
    /\ UNCHANGED <<spin_op, gameVars, algebraVars, options_, order, run>>

CreateNode ==
    /\ steps < MaxCalls
    /\ \E ds \in CacheStates : \E r \in {create_node(node_cache_, ds)} :
        Called("create_node", ds, r)

CreateSpinNode ==
    /\ steps < MaxCalls
    /\ \E ds \in CacheStates : \E r \in {create_spin_node(node_cache_, ds)} :
        Called("create_spin_node", ds, r)

CreateDecideNode ==
    /\ steps < MaxCalls
    /\ \E ds \in CacheStates : \E r \in {create_decide_node(node_cache_, ds)} :
        Called("create_decide_node", ds, r)

CreateTerminalNode ==
    /\ steps < MaxCalls
    /\ \E ds \in CacheStates : \E r \in {create_terminal_node(node_cache_, ds)} :
        Called("create_terminal_node", ds, r)

\* Node::scan called on a node of the cache
Scan ==
    /\ steps < MaxCalls
    /\ \E n \in 1 .. Len(node_cache_.nodes), depth \in 0 .. MaxDepth :
        \E c \in {scan(node_cache_, n, depth)} :
            Called("scan", <<n, depth>>, [nc |-> c, node |-> n])

\* Node::payoff called on a node of the cache
NodePayoff ==
    /\ steps < MaxCalls
    /\ \E n \in 1 .. Len(node_cache_.nodes) : \E r \in {payoff(node_cache_, n)} :
        Called("payoff", n, [nc |-> r.nc, node |-> n])

\* NodeCache::apply with Node::invalidate
Invalidate ==
    /\ steps < MaxCalls
    /\ node_cache_.nodes # <<>>
    /\ Called("invalidate", None, [nc |-> invalidate_all(node_cache_), node |-> 0])

NextCache ==
    \/ CreateNode \/ CreateSpinNode \/ CreateDecideNode \/ CreateTerminalNode
    \/ Scan \/ NodePayoff \/ Invalidate

SpecCache == InitCache /\ [][NextCache]_vars

(***************************************************************************)
(* Search::run.                                                            *)
(***************************************************************************)
InitSearch ==
    /\ spin_op = Search_spin_op(SpinTest)
    /\ node_cache_ = NewNodeCache
    /\ options_ = DefaultOptions
    /\ order \in Orders
    /\ cache0 = NewNodeCache
    /\ arg = None /\ ret = 0
    /\ run = [pc |-> "idle", node |-> 0, depth |-> 0, solved |-> FALSE, passes |-> 0, runs |-> 0]
    /\ op = "init" /\ steps = 0
    /\ st = None /\ prev = None /\ val = None /\ dist = None
    /\ svs = None /\ pows = None /\ lhs = None /\ rhs = None

RunStart_no_change_player ==
    /\ run.pc \in {"idle", "done"}
    /\ run.runs < MaxRuns
    /\ \E init \in SearchStates : \E r \in {create_decide_node(node_cache_, init)} :
        /\ node_cache_' = r.nc
        /\ ret' = r.node
        /\ arg' = init
        /\ run' = [pc |-> "loop", node |-> r.node, depth |-> 4, solved |-> FALSE,
                   passes |-> 0, runs |-> run.runs + 1]
    /\ cache0' = node_cache_
    /\ op' = "run"
    /\ UNCHANGED <<spin_op, steps, gameVars, algebraVars, options_, order>>

\* Search::run up to the loop
RunStart ==
    /\ run.pc \in {"idle", "done"}
    /\ run.runs < MaxRuns
    /\ \E init \in SearchStates : \E r \in {create_decide_node(node_cache_, change_player(init))} :
        /\ node_cache_' = r.nc
        /\ ret' = r.node
        /\ arg' = init
        /\ run' = [pc |-> "loop", node |-> r.node, depth |-> 4, solved |-> FALSE,
                   passes |-> 0, runs |-> run.runs + 1]
    /\ cache0' = node_cache_
    /\ op' = "run"
    /\ UNCHANGED <<spin_op, steps, gameVars, algebraVars, options_, order>>

\* Search::run, one round of the loop
RunPass ==
    /\ run.pc = "loop"
    /\ run.depth < 64 /\ ~run.solved
    /\ run.passes < MaxPasses
    /\ \E c \in {scan(node_cache_, run.node, run.depth)} :
        \E r \in {payoff(c, run.node)} :
            /\ node_cache_' = invalidate_all(r.nc)
            /\ run' = [run EXCEPT !.solved = solved(r.nc, run.node),
                                  !.depth = IF @ < 32 THEN @ + 8 ELSE @ + 4,
                                  !.passes = @ + 1]
    /\ cache0' = node_cache_
    /\ op' = "pass"
    /\ UNCHANGED <<spin_op, steps, gameVars, algebraVars, options_, order, arg, ret>>

\* Search::run: return node
RunReturn ==
    /\ run.pc = "loop"
    /\ ~(run.depth < 64 /\ ~run.solved)
    /\ run' = [run EXCEPT !.pc = "done"]
    /\ ret' = run.node
    /\ cache0' = node_cache_
    /\ op' = "return"
    /\ UNCHANGED <<spin_op, steps, gameVars, algebraVars, node_cache_, options_, order, arg>>

NextSearch == RunStart \/ RunPass \/ RunReturn

SpecSearch == InitSearch /\ [][NextSearch]_vars

(***************************************************************************)
(* Terminal nodes: a node is made for a state in which the game is over    *)
(* and its payoff is asked for.                                            *)
(***************************************************************************)
\* states in which the game is over: the player up has no turns, or both
\* opponents are out
TerminalStates ==
    {s \in {MakeState(sc, e, <<0, 0, 0>>, w, u) :
                sc \in Triples({0, MinScoreUnit, MaxScore}),
                e \in {<<0, 0, 0>>, <<1, 0, 0>>},
                w \in Triples({0, MaxWhammies - 1, MaxWhammies}),
                u \in Players} : terminal(s)}

InitTerminal == InitCache

\* NodeCache::create_node for a state in which the game is over
TerminalCreate ==
    /\ steps = 0
    /\ \E ds \in TerminalStates : \E r \in {create_node(node_cache_, ds)} :
        Called("create_node", ds, r)

\* Node::payoff of the node just made
TerminalPayoff ==
    /\ steps = 1
    /\ op = "create_node"
    /\ \E r \in {payoff(node_cache_, ret)} :
        Called("payoff", ret, [nc |-> r.nc, node |-> ret])

NextTerminal == TerminalCreate \/ TerminalPayoff

SpecTerminal == InitTerminal /\ [][NextTerminal]_vars

(***************************************************************************)
(* Search::run with all its passes.  The depth of a pass is its budget cut *)
(* at MaxLevels, the budget itself follows the loop of run.                *)
(***************************************************************************)
\* initial states for whole runs: every player out; a leader who is out and
\* still holds a turn; a player in third place; the lead cap exceeded
RunStates ==
    {MakeState(<<0, 0, 0>>, <<0, 0, 0>>, <<0, 0, 0>>,
               <<MaxWhammies, MaxWhammies, MaxWhammies>>, 0),
     MakeState(<<0, 0, MaxScore>>, <<0, 1, 1>>, <<0, 0, 0>>, <<0, 0, MaxWhammies>>, 0),
     MakeState(<<0, MaxScore, MaxScore>>, <<1, 0, 0>>, <<0, 0, 0>>, <<0, 0, 0>>, 0),
     MakeState(<<0, MaxScore, 0>>, <<0, 1, 0>>, <<0, 0, 0>>, <<0, 0, 0>>, 0)}

\* Search::run up to the loop
WholeRunStart ==
    /\ run.pc \in {"idle", "done"}
    /\ run.runs < MaxRuns
    /\ \E init \in RunStates : \E r \in {create_decide_node(node_cache_, change_player(init))} :
        /\ node_cache_' = r.nc
        /\ ret' = r.node
        /\ arg' = init
        /\ run' = [pc |-> "loop", node |-> r.node, depth |-> 4, solved |-> FALSE,
                   passes |-> 0, runs |-> run.runs + 1]
    /\ cache0' = node_cache_
    /\ op' = "run"
    /\ UNCHANGED <<spin_op, steps, gameVars, algebraVars, options_, order>>

WholeRunPass_by_eight ==
    /\ run.pc = "loop"
    /\ run.depth < 64 /\ ~run.solved
    /\ \E c \in {scan(node_cache_, run.node, Min(run.depth, MaxLevels))} :
        \E r \in {payoff(c, run.node)} :
            /\ node_cache_' = invalidate_all(r.nc)
            /\ run' = [run EXCEPT !.solved = solved(r.nc, run.node),
                                  !.depth = @ + 8,
                                  !.passes = @ + 1]
    /\ cache0' = node_cache_
    /\ op' = "pass"
    /\ UNCHANGED <<spin_op, steps, gameVars, algebraVars, options_, order, arg, ret>>

\* Search::run, one round of the loop
WholeRunPass ==
    /\ run.pc = "loop"
    /\ run.depth < 64 /\ ~run.solved
    /\ \E c \in {scan(node_cache_, run.node, Min(run.depth, MaxLevels))} :
        \E r \in {payoff(c, run.node)} :
            /\ node_cache_' = invalidate_all(r.nc)
            /\ run' = [run EXCEPT !.solved = solved(r.nc, run.node),
                                  !.depth = IF @ < 32 THEN @ + 8 ELSE @ + 4,
                                  !.passes = @ + 1]
    /\ cache0' = node_cache_
    /\ op' = "pass"
    /\ UNCHANGED <<spin_op, steps, gameVars, algebraVars, options_, order, arg, ret>>

NextWholeRun == WholeRunStart \/ WholeRunPass \/ RunReturn

SpecWholeRun == InitSearch /\ [][NextWholeRun]_vars

\* run is one thread of control: a round of the loop that can be made is
\* made, and a run whose loop has ended returns.  The second conjunct is
\* WF_vars(WholeRunPass) with the guard of the action written out for
\* ENABLED; scan and payoff are total, so the guard is all that enabling
\* takes.
FairWholeRun ==
    /\ SpecWholeRun
    /\ \/ []<>~(run.pc = "loop" /\ run.depth < 64 /\ ~run.solved)
       \/ []<><<WholeRunPass>>_vars
    /\ WF_vars(RunReturn)

(***************************************************************************)
(* Decision nodes: a root is made as Search::run makes it, scanned once to *)
(* some depth under some options, and its payoff is asked for.             *)
(***************************************************************************)
\* SearchOptions with the lead cap and the third place rule switched on or off
OptionSets ==
    {[DefaultOptions EXCEPT !.max_lead = l, !.always_spin_third_place = t] :
        l \in {0, DefaultOptions.max_lead}, t \in BOOLEAN}

\* the initial states of the roots: scores at 0, at MaxScore and at the lead
\* cap below MaxScore
DecideStates ==
    {MakeState(sc, e, <<0, 0, 0>>, <<0, 0, 0>>, u) :
        sc \in Triples({0, MaxScore - DefaultOptions.max_lead, MaxScore}),
        e \in {<<1, 0, 0>>, <<1, 1, 0>>, <<0, 0, 0>>, <<2, 0, 1>>},
        u \in Players}

InitDecide ==
    /\ spin_op = Search_spin_op(SpinTest)
    /\ node_cache_ = NewNodeCache
    /\ options_ \in OptionSets
    /\ order \in Orders
    /\ cache0 = NewNodeCache
    /\ arg = None /\ ret = 0 /\ run = None
    /\ op = "init" /\ steps = 0
    /\ st = None /\ prev = None /\ val = None /\ dist = None
    /\ svs = None /\ pows = None /\ lhs = None /\ rhs = None

\* Search::run: init.change_player () and the root node
DecideCreate ==
    /\ steps = 0
    /\ \E init \in DecideStates :
        \E r \in {create_decide_node(node_cache_, change_player(init))} :
            Called("create_decide_node", change_player(init), r)

\* Search::run: node->scan (*this, StopCondition{depth})
DecideScan ==
    /\ steps = 1
    /\ \E depth \in 1 .. MaxScanDepth : \E c \in {scan(node_cache_, ret, depth)} :
        Called("scan", <<ret, depth>>, [nc |-> c, node |-> ret])

\* Search::run: node->payoff ()
DecidePayoff ==
    /\ steps = 2
    /\ \E r \in {payoff(node_cache_, ret)} :
        Called("payoff", ret, [nc |-> r.nc, node |-> ret])

NextDecide == DecideCreate \/ DecideScan \/ DecidePayoff

SpecDecide == InitDecide /\ [][NextDecide]_vars

(***************************************************************************)
(* A later pass: a root is made, scanned and asked for its payoff as the   *)
(* first pass of Search::run does it, the visited markers are reset, and   *)
(* the scan of the next pass reaches some node of the cache with some      *)
(* depth budget left.                                                      *)
(***************************************************************************)
InitRescan == InitCache

\* Search::run: init.change_player () and the root node
RescanCreate ==
    /\ steps = 0
    /\ \E init \in SearchStates :
        \E r \in {create_decide_node(node_cache_, change_player(init))} :
            Called("create_decide_node", change_player(init), r)

\* Search::run: node->scan (*this, StopCondition{depth})
RescanFirstScan ==
    /\ steps = 1
    /\ \E depth \in 1 .. MaxScanDepth : \E c \in {scan(node_cache_, ret, depth)} :
        Called("scan", <<ret, depth>>, [nc |-> c, node |-> ret])

\* Search::run: node->payoff ()
RescanPayoff ==
    /\ steps = 2
    /\ \E r \in {payoff(node_cache_, ret)} :
        Called("payoff", ret, [nc |-> r.nc, node |-> ret])

\* Search::run: node_cache_->apply (invalidate)
RescanInvalidate ==
    /\ steps = 3
    /\ Called("invalidate", None, [nc |-> invalidate_all(node_cache_), node |-> 0])

\* node->scan (search, stop) as scan_branches calls it in the next pass
RescanNode ==
    /\ steps = 4
    /\ \E n \in 1 .. Len(node_cache_.nodes), depth \in 0 .. MaxDepth :
        \E c \in {scan(node_cache_, n, depth)} :
            Called("scan", <<n, depth>>, [nc |-> c, node |-> n])

NextRescan ==
    RescanCreate \/ RescanFirstScan \/ RescanPayoff \/ RescanInvalidate \/ RescanNode

SpecRescan == InitRescan /\ [][NextRescan]_vars

(***************************************************************************)
(* A node met again within a pass: after the first pass and the reset of   *)
(* the markers, the next pass scans the root, here with the depth budget   *)
(* that run gives its first pass, and some node is then met again before   *)
(* the markers are reset.                                                  *)
(***************************************************************************)
\* Search::run: node->scan (*this, StopCondition{depth}) of the next pass,
\* cut at the depth 4 of the loop's first round; the root is the first node
\* of the cache
RevisitRootScan ==
    /\ steps = 4
    /\ \E c \in {scan(node_cache_, 1, 4)} :
        Called("scan", <<1, 4>>, [nc |-> c, node |-> 1])

\* node->scan (search, stop) as scan_branches calls it later in the same pass
RevisitNode ==
    /\ steps = 5
    /\ \E n \in 1 .. Len(node_cache_.nodes), depth \in 0 .. MaxDepth :
        \E c \in {scan(node_cache_, n, depth)} :
            Called("scan", <<n, depth>>, [nc |-> c, node |-> n])

NextRevisit ==
    \/ RescanCreate \/ RescanFirstScan \/ RescanPayoff \/ RescanInvalidate
    \/ RevisitRootScan \/ RevisitNode

SpecRevisit == InitRescan /\ [][NextRevisit]_vars

(***************************************************************************)
(* Claims about the algebra and the two primitive transitions.             *)
(***************************************************************************)

\* C3: composition of spin operators is associative: (A(B))(C) and A(B(C))
\* are the same weighted set, and so is the composition of any three spin
\* values.
C3_Associative ==
    op \in {"call", "mul"} => lhs = rhs

\* a sequence of single spins: one more spin applied to every outcome that
\* has not hit a whammy yet
SeqStep(D) ==
    LET C == {c \in (DOMAIN D) \X (DOMAIN spin_op[1]) :
                c[1].stopped => c[2] = CHOOSE v \in DOMAIN spin_op[1] : TRUE}
        target(c) == IF c[1].stopped THEN c[1]
                     ELSE [s |-> MulSpinState(c[2], c[1].s), stopped |-> whammy(c[2])]
        w == [c \in C |-> IF c[1].stopped THEN D[c[1]]
                          ELSE ProbMul(D[c[1]], spin_op[1][c[2]])]
    IN [k \in {target(c) : c \in C} |-> SumOver(w, {c \in C : target(c) = k})]

RECURSIVE SeqSpins(_, _)
SeqSpins(s, n) ==
    IF n = 0 THEN [k \in {[s |-> s, stopped |-> FALSE]} |-> One]
    ELSE SeqStep(SeqSpins(s, n - 1))

Sequential(s, n) ==
    LET D == SeqSpins(s, n)
    IN [x \in {k.s : k \in DOMAIN D} |-> SumOver(D, {k \in DOMAIN D : k.s = x})]

\* C4: for a state whose up player has at least n passed turns, spin_op[n]
\* applied once gives the distribution over states that n single spins give,
\* a sequence of single spins ending at its first whammy.
C4_BatchIsSequential ==
    (op = "spin" /\ prev[up_num(prev)].passed >= max_spins(prev))
        => dist = Sequential(prev, max_spins(prev))

\* the turns a spin value takes from the passed and from the earned turns
FromPassed(p, v) == Min(p.passed, v.taken)
FromEarned(p, v) == v.taken - FromPassed(p, v)

\* C5: after a spin value that is no whammy the record of the player who was
\* up has lost the taken turns (passed turns first), has the score
\* min(score + value score, MaxScore) and has gained the value's earned turns.
C5_SpinRecord ==
    (op = "spin" /\ ~whammy(val) /\ spins(prev[up_num(prev)]) >= val.taken) =>
        LET p == prev[up_num(prev)]
            q == st[up_num(prev)]
        IN /\ q.passed = p.passed - FromPassed(p, val)
           /\ q.earned = p.earned - FromEarned(p, val) + val.earned
           /\ q.score = Min(p.score + val.score, MaxScore)

\* C6: after a whammy the record of the player who was up has score 0, no
\* passed turns, the earned turns plus the passed turns left as earned turns,
\* one whammy more (or none, when normalized), and no turns if it is out.
C6_WhammyRecord ==
    (op = "spin" /\ whammy(val) /\ spins(prev[up_num(prev)]) >= val.taken) =>
        LET p == prev[up_num(prev)]
            q == st[up_num(prev)]
            w == p.whammies + 1
        IN /\ q.score = 0
           /\ q.passed = 0
           /\ \/ q.whammies = w
              \/ q.whammies = 0 /\ w + total_spins(st) < MaxWhammies
           /\ q.earned = IF w >= MaxWhammies THEN 0
                         ELSE (p.earned - FromEarned(p, val)) + (p.passed - FromPassed(p, val))

\* the whammy count of player i after a spin and before the normalization
WhammiesBefore(i) ==
    IF i = up_num(prev) /\ whammy(val) THEN prev[i].whammies + 1 ELSE prev[i].whammies

\* C7: after a spin, the player now up has whammy count 0 if its count plus
\* the turns left in the game is below MaxWhammies, and the normalization
\* changes the whammy count of no other player.
C7_Normalization ==
    op = "spin" =>
        LET n == up_num(st)
        IN /\ WhammiesBefore(n) + total_spins(st) < MaxWhammies => st[n].whammies = 0
           /\ \A i \in Players \ {n} : st[i].whammies = WhammiesBefore(i)

\* the player of the state s that turn control goes to
NextUp(s, u) ==
    IF spins(s[u]) > 0 \/ \A i \in Players : spins(s[i]) = 0 THEN u
    ELSE CHOOSE i \in Players : spins(s[i]) > 0 /\ \A j \in 0 .. (i - 1) : spins(s[j]) = 0

\* C8: after a pass the passer has no earned turns, the opponent with the
\* higher score (the next player on a tie) has gained exactly the passer's
\* earned turns as passed turns, the other opponent's passed turns are
\* unchanged, and turn control has advanced.
C8_Pass ==
    op = "pass" =>
        LET u == up_num(prev)
            a == (u + 1) % num_players
            b == (u + 2) % num_players
            to == IF prev[a].score >= prev[b].score THEN a ELSE b
            other == IF to = a THEN b ELSE a
        IN /\ st[u].earned = 0
           /\ st[u].passed = prev[u].passed
           /\ st[to].passed = prev[to].passed + prev[u].earned
           /\ st[other].passed = prev[other].passed
           /\ up_num(st) = NextUp(st, u)

\* C9: change_player leaves the state alone if the player up has turns,
\* otherwise makes the lowest player with turns the player up (none: the
\* state is unchanged); it changes no score, turn or whammy count, and
\* afterwards the player up has no turns only if no player has turns.
C9_ChangePlayer ==
    op = "change_player" =>
        LET u == up_num(prev)
        IN /\ spins(prev[u]) > 0 => st = prev
           /\ (\A i \in Players : spins(prev[i]) = 0) => st = prev
           /\ (spins(prev[u]) = 0 /\ \E i \in Players : spins(prev[i]) > 0) =>
                 /\ spins(prev[up_num(st)]) > 0
                 /\ \A j \in 0 .. (up_num(st) - 1) : spins(prev[j]) = 0
           /\ \A i \in Players :
                 /\ st[i].score = prev[i].score
                 /\ st[i].earned = prev[i].earned
                 /\ st[i].passed = prev[i].passed
                 /\ st[i].whammies = prev[i].whammies
           /\ spins(st[up_num(st)]) = 0 => \A i \in Players : spins(st[i]) = 0

\* C9 witness: the player up had no turns and a later player, not the first
\* one, became the player up
C9_Witness ==
    /\ op = "change_player"
    /\ spins(prev[up_num(prev)]) = 0
    /\ up_num(st) # up_num(prev)
    /\ up_num(st) > 0
    /\ \E i \in Players : i > up_num(st) /\ spins(prev[i]) > 0

(***************************************************************************)
(* Claims about the node cache and the graph of nodes.                     *)
(***************************************************************************)
CreateCalls ==
    {"create_node", "create_spin_node", "create_decide_node", "create_terminal_node"}

\* the nodes of the cache nc of the given variant and state
Holding(nc, kind, ds) ==
    {i \in 1 .. Len(nc.nodes) : nc.nodes[i].kind = kind /\ nc.nodes[i].state = ds}

\* C1: the cache holds at most one node per variant and state; a create call
\* for a state its variant's map holds returns that node and adds nothing, a
\* create call for a new state adds exactly one node and returns it, and no
\* operation removes a node or changes the variant or the state of one.
C1_OneNodePerState ==
    /\ \A i, j \in 1 .. Len(node_cache_.nodes) :
          (/\ node_cache_.nodes[i].kind = node_cache_.nodes[j].kind
           /\ node_cache_.nodes[i].state = node_cache_.nodes[j].state) => i = j
    /\ Len(node_cache_.nodes) >= Len(cache0.nodes)
    /\ \A i \in 1 .. Len(cache0.nodes) :
          /\ node_cache_.nodes[i].kind = cache0.nodes[i].kind
          /\ node_cache_.nodes[i].state = cache0.nodes[i].state
    /\ op \in CreateCalls =>
          /\ ret \in 1 .. Len(node_cache_.nodes)
          /\ node_cache_.nodes[ret].state = arg
          /\ op = "create_spin_node" => node_cache_.nodes[ret].kind = "spin"
          /\ op = "create_decide_node" => node_cache_.nodes[ret].kind = "decide"
          /\ op = "create_terminal_node" => node_cache_.nodes[ret].kind = "terminal"
          /\ IF Holding(cache0, node_cache_.nodes[ret].kind, arg) # {}
             THEN node_cache_ = cache0 /\ ret \in Holding(cache0, node_cache_.nodes[ret].kind, arg)
             ELSE Len(node_cache_.nodes) = Len(cache0.nodes) + 1 /\ ret = Len(node_cache_.nodes)

\* C1 witness: a create call for the state of a node that a scan has visited
\* returns that node and adds nothing, in a cache that holds nodes of two
\* variants for one state
C1_Witness ==
    /\ op \in CreateCalls
    /\ node_cache_ = cache0
    /\ ret \in 1 .. Len(node_cache_.nodes)
    /\ node_cache_.nodes[ret].visited_
    /\ \E i \in 1 .. Len(node_cache_.nodes) :
          /\ i # ret
          /\ node_cache_.nodes[i].state = node_cache_.nodes[ret].state

\* the successors of node n: play branch, pass branch and chance branches
Successors(nc, n) ==
    ({nc.nodes[n].if_play, nc.nodes[n].if_pass} \ {0})
        \cup {nc.nodes[n].branches[i][2] : i \in 1 .. Len(nc.nodes[n].branches)}

RECURSIVE Reachable(_, _)
Reachable(nc, S) ==
    LET T == S \cup UNION {Successors(nc, n) : n \in S}
    IN IF T = S THEN S ELSE Reachable(nc, T)

\* C2: the graph of nodes that run builds is acyclic: no node reaches itself
\* over one or more play, pass or chance branches.
C2_Acyclic ==
    \A n \in 1 .. Len(node_cache_.nodes) : n \notin Reachable(node_cache_, Successors(node_cache_, n))

\* the variant that the claimed precedence gives a state
Variant(ds) ==
    LET u == ds[0].up
        a == (u + 1) % num_players
        b == (u + 2) % num_players
    IN IF ds[u].earned + ds[u].passed = 0
          \/ (ds[a].whammies >= MaxWhammies /\ ds[b].whammies >= MaxWhammies)
       THEN "terminal"
       ELSE IF ds[u].earned > 0 /\ ds[u].passed = 0 THEN "decide"
       ELSE "spin"

\* C10: create_node returns a terminal node if the player up has no turns or
\* both opponents are out, else a decision node if the player up has earned
\* turns and no passed turns, else a chance node; so does every node that a
\* scan makes with create_node: the target of a chance branch and of a pass
\* branch.
C10_Variant ==
    /\ op = "create_node" =>
          /\ node_cache_.nodes[ret].state = arg
          /\ node_cache_.nodes[ret].kind = Variant(arg)
    /\ \A n \in 1 .. Len(node_cache_.nodes) :
          /\ \A i \in 1 .. Len(node_cache_.nodes[n].branches) :
                LET b == node_cache_.nodes[node_cache_.nodes[n].branches[i][2]]
                IN b.kind = Variant(b.state)
          /\ node_cache_.nodes[n].if_pass # 0 =>
                LET b == node_cache_.nodes[node_cache_.nodes[n].if_pass]
                IN b.kind = Variant(b.state)

\* C10 witness: create_node has made a terminal node for a state whose player
\* up has an earned turn and no passed turn, both opponents being out, and
\* the cache holds a decision node and a chance node made by a scan
C10_Witness ==
    /\ op = "create_node"
    /\ node_cache_.nodes[ret].kind = "terminal"
    /\ Len(node_cache_.nodes) = Len(cache0.nodes) + 1
    /\ arg[up_num(arg)].earned > 0 /\ arg[up_num(arg)].passed = 0
    /\ \E n \in 1 .. Len(node_cache_.nodes) :
          /\ node_cache_.nodes[n].branches # <<>>
          /\ \E i \in 1 .. Len(node_cache_.nodes[n].branches) :
                node_cache_.nodes[node_cache_.nodes[n].branches[i][2]].kind = "decide"

(***************************************************************************)
(* Claims about payoffs.                                                   *)
(***************************************************************************)
\* the players of state s that are not out
Alive(s) == {i \in Players : s[i].whammies < MaxWhammies}
\* the players of state s that are not out and hold the highest score of those
Winners(s) == {i \in Alive(s) : \A j \in Alive(s) : s[j].score <= s[i].score}

\* C11: the payoff of a terminal node gives every player who is not out and
\* holds the highest score among the players not out the probability
\* 1/count, count being the number of such players, and every other player
\* 0; a single player not out gets 1 whatever the score.
C11_TerminalPayoff ==
    (op = "payoff" /\ node_cache_.nodes[ret].kind = "terminal") =>
        LET s == node_cache_.nodes[ret].state
            p == node_cache_.nodes[ret].payoff_
        IN /\ \A i \in Players :
                 p[i + 1] = IF i \in Winners(s) THEN Rat(1, Cardinality(Winners(s))) ELSE Zero
           /\ Cardinality(Alive(s)) = 1 => \A i \in Alive(s) : p[i + 1] = One

\* C11 witness: the payoff of a terminal node in which the only player not
\* out has score 0 and a player who is out has a higher score
C11_Witness ==
    /\ op = "payoff"
    /\ node_cache_.nodes[ret].kind = "terminal"
    /\ \E i \in Players :
          /\ Alive(node_cache_.nodes[ret].state) = {i}
          /\ node_cache_.nodes[ret].state[i].score = 0
          /\ node_cache_.nodes[ret].payoff_[i + 1] = One
          /\ \E j \in Players \ {i} : node_cache_.nodes[ret].state[j].score > 0

\* the sum of the probabilities of a payoff
PayoffSum(p) == ProbAdd(ProbAdd(p[1], p[2]), p[3])

SpinNodes(nc) == {n \in 1 .. Len(nc.nodes) : nc.nodes[n].kind = "spin"}

\* the branches a chance node for state s is to have: a weight and a state
\* for every resulting state other than s, the weights divided by the
\* probability of leaving s
ExpectedBranches(s) ==
    LET next == MulOperatorState(spin_op[max_spins(s)], s)
        coverage == IF s \in DOMAIN next THEN ProbSub(One, next[s]) ELSE One
    IN {<<ProbDiv(next[t], coverage), t>> : t \in (DOMAIN next) \ {s}}

\* the weights and target states of the branches of node n
Recorded(nc, n) ==
    {<<nc.nodes[n].branches[i][1], nc.nodes[nc.nodes[n].branches[i][2]].state>> :
        i \in 1 .. Len(nc.nodes[n].branches)}

RECURSIVE WeightSum(_, _)
WeightSum(b, i) == IF i > Len(b) THEN Zero ELSE ProbAdd(b[i][1], WeightSum(b, i + 1))

RECURSIVE WeightedSum(_, _, _)
WeightedSum(nc, b, i) ==
    IF i > Len(b) THEN ClearPayoff
    ELSE PayoffAdd(PayoffScale(nc.nodes[b[i][2]].payoff_, b[i][1]), WeightedSum(nc, b, i + 1))

\* the chance nodes known to be expanded: those with branches, and the play
\* branch of a root that the pass just made has expanded
ExpandedSpinNodes ==
    {n \in SpinNodes(node_cache_) : node_cache_.nodes[n].branches # <<>>}
        \cup (IF op = "pass" /\ cache0.nodes[run.node].if_play = 0
              THEN {node_cache_.nodes[run.node].if_play} \ {0} ELSE {})

\* C13: an expanded chance node has one branch for every resulting state
\* other than its own state and none to its own state, its branch weights
\* sum to 1, and its payoff, once computed, is the weighted sum of the
\* payoffs of its branches.
C13_ChanceBranches ==
    /\ \A n \in ExpandedSpinNodes :
          /\ Recorded(node_cache_, n) = ExpectedBranches(node_cache_.nodes[n].state)
          /\ Cardinality(Recorded(node_cache_, n)) = Len(node_cache_.nodes[n].branches)
          /\ WeightSum(node_cache_.nodes[n].branches, 1) = One
    /\ \A n \in SpinNodes(node_cache_) :
          (/\ ~is_null(node_cache_.nodes[n].payoff_)
           /\ \A i \in 1 .. Len(node_cache_.nodes[n].branches) :
                 ~is_null(node_cache_.nodes[node_cache_.nodes[n].branches[i][2]].payoff_)) =>
          node_cache_.nodes[n].payoff_ = WeightedSum(node_cache_, node_cache_.nodes[n].branches, 1)

(***************************************************************************)
(* Claims about decision nodes.                                            *)
(***************************************************************************)
DecideNodes(nc) == {n \in 1 .. Len(nc.nodes) : nc.nodes[n].kind = "decide"}

\* the decision nodes known to be expanded: those with a branch, and the root
\* once it has been scanned
ExpandedDecideNodes ==
    {n \in DecideNodes(node_cache_) :
        node_cache_.nodes[n].if_play # 0 \/ node_cache_.nodes[n].if_pass # 0}
        \cup (IF /\ op = "scan"
                 /\ arg[2] > 0
                 /\ ~cache0.nodes[arg[1]].visited_
                 /\ ~ProbLeq(uncertainty(cache0.nodes[arg[1]].payoff_), options_.max_uncertainty)
              THEN {arg[1]} \cap DecideNodes(node_cache_) ELSE {})

LeadOverCap(s) == options_.max_lead # 0 /\ lead(s) > options_.max_lead
SpinsThirdPlace(s) == options_.always_spin_third_place /\ third_place(s)

BranchRule(nc, n) ==
    LET node == nc.nodes[n]
        up == up_num(node.state)
        play == nc.nodes[node.if_play].payoff_
        pass == nc.nodes[node.if_pass].payoff_
    IN IF node.if_play = 0 THEN pass
       ELSE IF node.if_pass = 0 THEN play
       ELSE IF ProbLess(pass[up + 1], play[up + 1]) THEN play
       ELSE IF ProbLess(play[up + 1], pass[up + 1]) THEN pass
       ELSE [i \in 1 .. num_players |-> IF ProbLess(play[i], pass[i]) THEN play[i] ELSE pass[i]]

\* the decision nodes with a branch whose payoff the last operation computed:
\* the payoff was not there before it and is there, with those of the
\* branches, after it
DecidedNodes ==
    {n \in DecideNodes(node_cache_) :
        LET node == node_cache_.nodes[n]
        IN /\ node.if_play # 0 \/ node.if_pass # 0
           /\ n > Len(cache0.nodes) \/ is_null(cache0.nodes[n].payoff_)
           /\ ~is_null(node.payoff_)
           /\ node.if_play # 0 => ~is_null(node_cache_.nodes[node.if_play].payoff_)
           /\ node.if_pass # 0 => ~is_null(node_cache_.nodes[node.if_pass].payoff_)}

\* C15: a decision node with one branch has that branch's payoff; with both
\* branches it has the payoff of the branch whose win probability for the
\* player who is up is strictly higher, and on an exact tie the per-player
\* minimum of the two payoffs.
C15_DecidePayoff ==
    \A n \in DecidedNodes :
        node_cache_.nodes[n].payoff_ = BranchRule(node_cache_, n)

C15_Witness ==
    /\ op = "payoff"
    /\ ret \in DecidedNodes
    /\ LET node == node_cache_.nodes[ret]
           up == up_num(node.state)
       IN /\ node.if_play # 0 /\ node.if_pass # 0
          /\ node_cache_.nodes[node.if_play].payoff_[up + 1] =
                node_cache_.nodes[node.if_pass].payoff_[up + 1]
          /\ node_cache_.nodes[node.if_play].payoff_ # node_cache_.nodes[node.if_pass].payoff_
          /\ node.payoff_ # node_cache_.nodes[node.if_play].payoff_
          /\ node.payoff_ # node_cache_.nodes[node.if_pass].payoff_

\* C16: the root that run returns has decision PLAY when it has only the
\* play branch and PASS when it has only the pass branch.
C16_SingleBranchDecision ==
    run # None /\ run.pc = "done" =>
        LET node == node_cache_.nodes[run.node]
        IN /\ node.if_play # 0 /\ node.if_pass = 0 => decision(node_cache_, run.node) = "PLAY"
           /\ node.if_play = 0 /\ node.if_pass # 0 => decision(node_cache_, run.node) = "PASS"

C16_Witness ==
    /\ run # None /\ run.pc = "done"
    /\ node_cache_.nodes[run.node].if_play = 0
    /\ node_cache_.nodes[run.node].if_pass # 0
    /\ decision(node_cache_, run.node) = "PASS"

\* the decision nodes with both branches or none whose payoff the last
\* operation computed
ComparedNodes ==
    {n \in DecidedNodes :
        node_cache_.nodes[n].if_play # 0 /\ node_cache_.nodes[n].if_pass # 0}
        \cup {n \in DecideNodes(node_cache_) :
                /\ node_cache_.nodes[n].if_play = 0 /\ node_cache_.nodes[n].if_pass = 0
                /\ n > Len(cache0.nodes) \/ is_null(cache0.nodes[n].payoff_)
                /\ ~is_null(node_cache_.nodes[n].payoff_)}

\* the answer the claim gives for a decision node
DecisionRule(nc, n) ==
    LET node == nc.nodes[n]
        up == up_num(node.state)
        play == nc.nodes[node.if_play].payoff_
        pass == nc.nodes[node.if_pass].payoff_
    IN IF node.if_play = 0 /\ node.if_pass = 0 THEN "UNDECIDED"
       ELSE IF ProbLess(pass[up + 1], play[up + 1]) THEN "PLAY"
       ELSE IF ProbLess(play[up + 1], pass[up + 1]) THEN "PASS"
       ELSE IF play = pass THEN "PLAY"
       ELSE "UNDECIDED"

BranchMin(nc, n) ==
    LET play == nc.nodes[nc.nodes[n].if_play].payoff_
        pass == nc.nodes[nc.nodes[n].if_pass].payoff_
    IN [i \in 1 .. num_players |-> IF ProbLess(play[i], pass[i]) THEN play[i] ELSE pass[i]]

\* the answer on an exact tie goes by which branch's payoff the per-player
\* minimum is equal to
DecisionRuleAmended(nc, n) ==
    LET node == nc.nodes[n]
        up == up_num(node.state)
        play == nc.nodes[node.if_play].payoff_
        pass == nc.nodes[node.if_pass].payoff_
    IN IF node.if_play = 0 /\ node.if_pass = 0 THEN "UNDECIDED"
       ELSE IF ProbLess(pass[up + 1], play[up + 1]) THEN "PLAY"
       ELSE IF ProbLess(play[up + 1], pass[up + 1]) THEN "PASS"
       ELSE IF BranchMin(nc, n) = play THEN "PLAY"
       ELSE IF BranchMin(nc, n) = pass THEN "PASS"
       ELSE "UNDECIDED"

Deficit(p) == ProbSub(One, PayoffSum(p))

\* the convergence predicate as the claim states it, on the payoffs the
\* branches give when asked
SolvedRule(nc, n) ==
    LET node == nc.nodes[n]
        up == up_num(node.state)
        play == payoff(nc, node.if_play).value
        pass == payoff(nc, node.if_pass).value
    IN IF is_null(node.payoff_) \/ (node.if_play = 0 /\ node.if_pass = 0) THEN FALSE
       ELSE IF node.if_play = 0 \/ node.if_pass = 0 THEN TRUE
       ELSE IF \/ ProbLess(ProbAdd(play[up + 1], Deficit(play)), pass[up + 1])
               \/ ProbLess(ProbAdd(pass[up + 1], Deficit(pass)), play[up + 1])
            THEN TRUE
       ELSE /\ ProbLeq(Deficit(play), options_.max_uncertainty)
            /\ ProbLeq(Deficit(pass), options_.max_uncertainty)

Budgets == <<4, 12, 20, 28, 36, 40, 44, 48, 52, 56, 60>>

RootState == node_cache_.nodes[run.node].state

\* C21: the root of a run is a decision node whose state is the initial state
\* with turn control advanced: every player's score, turns and whammy count
\* are those of the initial state; when the player up in the initial state
\* has no turns and another player has turns, the player up in the root has
\* turns; the root is never a node of a player without turns while another
\* player has turns.
C21_RootAfterTurnControl ==
    run.pc \in {"loop", "done"} =>
        /\ node_cache_.nodes[run.node].kind = "decide"
        /\ \A i \in Players :
              /\ RootState[i].score = arg[i].score
              /\ RootState[i].earned = arg[i].earned
              /\ RootState[i].passed = arg[i].passed
              /\ RootState[i].whammies = arg[i].whammies
        /\ spins(arg[up_num(arg)]) > 0 => RootState = arg
        /\ (spins(arg[up_num(arg)]) = 0 /\ \E i \in Players : spins(arg[i]) > 0) =>
              spins(RootState[up_num(RootState)]) > 0
        /\ ~(spins(RootState[up_num(RootState)]) = 0 /\ \E i \in Players : spins(RootState[i]) > 0)

\* C21 witness: run was called with a state whose player up has no turns
\* while another player has one, and the root is a node of that other player
C21_Witness ==
    /\ op = "run"
    /\ spins(arg[up_num(arg)]) = 0
    /\ up_num(RootState) # up_num(arg)
    /\ spins(RootState[up_num(RootState)]) > 0

\* the nodes of the cache nc that node n reaches, n included
ReachableFrom(nc, n) == Reachable(nc, {n})

\* caches a and b hold the same nodes with the same payoffs, branches,
\* variants and states, and the same finished chance nodes
SameButMarkers(a, b) ==
    /\ Len(a.nodes) = Len(b.nodes)
    /\ \A n \in 1 .. Len(b.nodes) :
          /\ a.nodes[n].payoff_ = b.nodes[n].payoff_
          /\ a.nodes[n].branches = b.nodes[n].branches
          /\ a.nodes[n].if_play = b.nodes[n].if_play
          /\ a.nodes[n].if_pass = b.nodes[n].if_pass
          /\ a.nodes[n].kind = b.nodes[n].kind
          /\ a.nodes[n].state = b.nodes[n].state
    /\ a.final_spin_nodes = b.final_spin_nodes

\* C22: whenever run is about to make a pass or has returned, no node of the
\* cache is marked visited, whatever its variant and whether or not the root
\* reaches it; the reset at the end of a pass adds and removes no node and
\* changes no node's payoff, branches, variant or state (the cache after the
\* scan and the payoff query of the pass is the one the reset starts from).
C22_VisitedReset ==
    /\ [](\A n \in 1 .. Len(node_cache_.nodes) : ~node_cache_.nodes[n].visited_)
    /\ [][run.pc = "loop" /\ run'.passes = run.passes + 1 =>
            \A c \in {scan(node_cache_, run.node, Min(run.depth, MaxLevels))} :
                \A r \in {payoff(c, run.node)} :
                    SameButMarkers(node_cache_', r.nc)]_vars

\* C22 witness: a pass of a second run has ended; its scan had marked a chance
\* node, a decision node and a terminal node, the cache holds a node with a
\* payoff that the root does not reach, and no node is marked
C22_Witness ==
    /\ op = "pass"
    /\ run.runs = 2
    /\ \E c \in {scan(cache0, run.node, Min(Budgets[run.passes], MaxLevels))} :
        \E mid \in {payoff(c, run.node).nc} :
          \A k \in {"spin", "decide", "terminal"} :
              \E n \in 1 .. Len(node_cache_.nodes) :
                  /\ node_cache_.nodes[n].kind = k
                  /\ mid.nodes[n].visited_
                  /\ ~is_null(node_cache_.nodes[n].payoff_)
    /\ \E n \in 1 .. Len(node_cache_.nodes) :
          /\ n \notin ReachableFrom(node_cache_, run.node)
          /\ ~is_null(node_cache_.nodes[n].payoff_)
    /\ \A n \in 1 .. Len(node_cache_.nodes) : ~node_cache_.nodes[n].visited_

(***************************************************************************)
(* Claims about Node::scan and Node::payoff.                               *)
(***************************************************************************)
\* the last operation was a scan that reached an unvisited node with no depth
\* budget left or with a payoff resolved up to max_uncertainty
StoppedEarly ==
    /\ op = "scan"
    /\ ~cache0.nodes[arg[1]].visited_
    /\ \/ arg[2] = 0
       \/ ProbLeq(uncertainty(cache0.nodes[arg[1]].payoff_), options_.max_uncertainty)

\* C23: a scan that reaches an unvisited node with depth budget 0, or with a
\* cached payoff whose uncertainty is at most max_uncertainty, marks the node
\* visited and changes nothing else: no payoff, no branch, no other node's
\* marker, and it adds no node.
C23_EarlyStop ==
    StoppedEarly => node_cache_ = [cache0 EXCEPT !.nodes[arg[1]].visited_ = TRUE]

\* C23 witness: with depth budget left, a scan reached a chance or decision
\* node that has successors, none of them visited, and a payoff resolved up
\* to max_uncertainty; the node is marked, its payoff is still there and no
\* successor is marked
C23_Witness ==
    /\ StoppedEarly
    /\ arg[2] > 0
    /\ node_cache_.nodes[arg[1]].kind # "terminal"
    /\ Successors(node_cache_, arg[1]) # {}
    /\ node_cache_.nodes[arg[1]].visited_
    /\ ~is_null(node_cache_.nodes[arg[1]].payoff_)
    /\ \A m \in Successors(node_cache_, arg[1]) : ~node_cache_.nodes[m].visited_

C25_PlainComposition ==
    (op = "compose" /\ ~whammy(svs[1]) /\ ~whammy(svs[2])) =>
        /\ lhs.score = Min(MaxScore, svs[1].score + svs[2].score)
        /\ lhs.earned = svs[1].earned + svs[2].earned
        /\ lhs.taken = svs[1].taken + svs[2].taken
        /\ lhs = rhs
        /\ ~whammy(lhs)

\* C25 witness: two different values that are no whammies, with turns earned
\* and scores that add up to more than MaxScore
C25_Witness ==
    /\ op = "compose"
    /\ ~whammy(svs[1]) /\ ~whammy(svs[2])
    /\ svs[1] # svs[2]
    /\ svs[1].score + svs[2].score > MaxScore
    /\ svs[1].earned + svs[2].earned > 0
    /\ lhs.score = MaxScore
    /\ lhs = rhs

\* the multiples of MinScoreUnit up to the first one above s
Multiples(s) == {k * MinScoreUnit : k \in 0 .. ((s \div MinScoreUnit) + 1)}

\* the multiple of MinScoreUnit nearest to s, the higher one of two
Nearest(s) ==
    CHOOSE m \in Multiples(s) :
        \A k \in Multiples(s) :
            \/ Abs(m - s) < Abs(k - s)
            \/ Abs(m - s) = Abs(k - s) /\ m >= k

\* C26: the score stored by the constructor for a raw score s >= 0 is a
\* multiple of MinScoreUnit, is at most MaxScore, and is the multiple nearest
\* to s, the higher one on a tie, cut at MaxScore; every value of the
\* operators spin_op[1] to spin_op[6] has a score from 0 to MaxScore that is a
\* multiple of MinScoreUnit.
C26_Quantization ==
    /\ op = "construct" =>
          /\ lhs.score % MinScoreUnit = 0
          /\ lhs.score <= MaxScore
          /\ lhs.score = Min(MaxScore, Nearest(svs[1]))
    /\ \A n \in 1 .. 6 : \A v \in DOMAIN spin_op[n] :
          /\ 0 <= v.score /\ v.score <= MaxScore
          /\ v.score % MinScoreUnit = 0

\* C26 witness: a raw score halfway between two multiples of MinScoreUnit is
\* stored as the higher one
C26_Witness ==
    /\ op = "construct"
    /\ svs[1] % MinScoreUnit = MinScoreUnit \div 2
    /\ lhs.score = svs[1] + (MinScoreUnit \div 2)
    /\ lhs.score < MaxScore

(***************************************************************************)
(* Claims about the options of a decision node and about unresolved        *)
(* payoffs.                                                                *)
(***************************************************************************)
\* State::at_max
at_max(s) == s[up_num(s)].score >= MaxScore

\* C27: an expanded decision node whose player up has reached MaxScore has no
\* play branch and has its pass branch.
C27_NoPlayAtMaxScore ==
    \A n \in ExpandedDecideNodes :
        at_max(node_cache_.nodes[n].state) =>
            node_cache_.nodes[n].if_play = 0 /\ node_cache_.nodes[n].if_pass # 0

\* the nodes of the cache nc that are not terminal nodes and have no
\* successor: they were reached with no depth budget left, or not at all
Unexpanded(nc) ==
    {n \in 1 .. Len(nc.nodes) : nc.nodes[n].kind # "terminal" /\ Successors(nc, n) = {}}

\* the nodes whose payoff the last operation computed
Computed ==
    {n \in 1 .. Len(node_cache_.nodes) :
        /\ n > Len(cache0.nodes) \/ is_null(cache0.nodes[n].payoff_)
        /\ ~is_null(node_cache_.nodes[n].payoff_)}

\* the sum of the weights of the branches of b from branch i on that lead to
\* nodes in S
RECURSIVE WeightInto(_, _, _)
WeightInto(b, S, i) ==
    IF i > Len(b) THEN Zero
    ELSE ProbAdd(IF b[i][2] \in S THEN b[i][1] ELSE Zero, WeightInto(b, S, i + 1))

\* C28: after the payoff of a node has been asked for, every node it reaches
\* that is not terminal and was never expanded has a payoff, 0 for every
\* player, of uncertainty 1; a chance node whose payoff was computed leaves
\* unresolved at least the weight of its branches to such nodes, and a
\* decision node whose payoff was computed and whose branches all lead to
\* such nodes has the payoff 0 for every player.
C28_UnresolvedPayoff ==
    op = "payoff" =>
        /\ \A n \in ReachableFrom(node_cache_, ret) \cap Unexpanded(node_cache_) :
              /\ node_cache_.nodes[n].payoff_ = ClearPayoff
              /\ uncertainty(node_cache_.nodes[n].payoff_) = One
        /\ \A n \in Computed \cap SpinNodes(node_cache_) :
              ProbLeq(WeightInto(node_cache_.nodes[n].branches, Unexpanded(node_cache_), 1),
                      uncertainty(node_cache_.nodes[n].payoff_))
        /\ \A n \in Computed \cap DecideNodes(node_cache_) :
              (Successors(node_cache_, n) # {}
                  /\ Successors(node_cache_, n) \subseteq Unexpanded(node_cache_)) =>
              node_cache_.nodes[n].payoff_ = ClearPayoff

\* C28 witness: the payoff of a root was computed; a chance node below it has
\* a branch to a decision node that was never expanded and a branch to a
\* terminal node, and the share it leaves unresolved is the weight of its
\* branches to nodes never expanded, more than 0 and less than 1
C28_Witness ==
    /\ op = "payoff"
    /\ \E n \in Computed \cap SpinNodes(node_cache_) :
          LET b == node_cache_.nodes[n].branches
          IN /\ \E i \in 1 .. Len(b) :
                    /\ b[i][2] \in Unexpanded(node_cache_)
                    /\ node_cache_.nodes[b[i][2]].kind = "decide"
                    /\ node_cache_.nodes[b[i][2]].payoff_ = ClearPayoff
             /\ \E i \in 1 .. Len(b) : node_cache_.nodes[b[i][2]].kind = "terminal"
             /\ uncertainty(node_cache_.nodes[n].payoff_) = WeightInto(b, Unexpanded(node_cache_), 1)
             /\ ProbLess(Zero, uncertainty(node_cache_.nodes[n].payoff_))
             /\ ProbLess(uncertainty(node_cache_.nodes[n].payoff_), One)

\* the number of turns the claim lets a chance node for state s resolve in
\* one step under the options o
BatchSize(s, o) ==
    IF s[up_num(s)].passed = 0 \/ ~o.merge_passed_spins THEN 1
    ELSE Min(s[up_num(s)].passed, o.max_passed_spins_optimized)

\* C29: a chance node resolves 1 turn in one step when the player up has no
\* passed turns, else as many as the player's passed turns, at most the cap
\* of the search options; that number is the index of one of the operators
\* spin_op[1] to spin_op[MaxPassedSpins - 1], and the node's outcomes are
\* those of that operator.
C29_BatchSize ==
    op = "spin" =>
        /\ BatchSize(prev, DefaultOptions) \in 1 .. (MaxPassedSpins - 1)
        /\ dist = MulOperatorState(spin_op[BatchSize(prev, DefaultOptions)], prev)

(***************************************************************************)
(* Claims about the frame of a spin.                                       *)
(***************************************************************************)
\* C30: a spin value applied to a state leaves the score, the earned turns
\* and the passed turns of the two players who were not up as they were,
\* also when one of them is the player up afterwards.
C30_SpinFrame ==
    op = "spin" =>
        \A i \in Players \ {up_num(prev)} :
            /\ st[i].score = prev[i].score
            /\ st[i].earned = prev[i].earned
            /\ st[i].passed = prev[i].passed

\* C30 witness: the player who was up took the last turn they had, and turn
\* control went to another player, who has the score and the turns held
\* before the spin
C30_Witness ==
    /\ op = "spin"
    /\ up_num(st) # up_num(prev)
    /\ spins(prev[up_num(prev)]) = val.taken
    /\ spins(st[up_num(st)]) > 0
    /\ st[up_num(st)].score = prev[up_num(st)].score
    /\ st[up_num(st)].earned = prev[up_num(st)].earned
    /\ st[up_num(st)].passed = prev[up_num(st)].passed

(***************************************************************************)
(* Claims about a node met again within a pass.                            *)
(***************************************************************************)
\* the nodes of the cache nc that hold n as a successor
Parents(nc, n) == {m \in 1 .. Len(nc.nodes) : n \in Successors(nc, m)}

C32_NoUnderflow ==
    op = "spin" => val.taken <= spins(prev[up_num(prev)])

\* C33: in every state that spins and passes reach, a player with MaxWhammies
\* whammies holds no earned and no passed turn, and the player up of a state
\* that is not terminal is not such a player.
C33_EliminatedHoldNoTurns ==
    /\ \A i \in Players : out(st[i]) => st[i].earned = 0 /\ st[i].passed = 0
    /\ ~terminal(st) => ~out(st[up_num(st)])

\* C34: with a board that awards at most one bonus turn per turn taken, a
\* spin, single or batched, does not raise the number of turns that the
\* three players hold together, and a pass leaves it as it is; so a player
\* whose whammies and the turns left in the game stay below MaxWhammies is
\* not out after the next step either.
C34_TotalTurnsNeverGrow ==
    /\ op = "spin" => total_spins(st) <= total_spins(prev)
    /\ op = "pass" => total_spins(st) = total_spins(prev)
    /\ op \in {"spin", "pass"} =>
          \A i \in Players :
              prev[i].whammies + total_spins(prev) < MaxWhammies => ~out(st[i])

(***************************************************************************)
(* Claims about the passes of a run.                                       *)
(***************************************************************************)
\* C35: whenever a pass has left the root not solved and the loop goes on,
\* the scan of the next pass is not stopped at the root by the uncertainty
\* test: the uncertainty of the root's payoff is above max_uncertainty, and
\* a scan of the root resets its payoff and reaches each of its successors.
C35_RootProgress ==
    run.pc = "loop" /\ run.passes >= 1 /\ ~run.solved /\ run.depth < 64 =>
        /\ ~ProbLeq(uncertainty(node_cache_.nodes[run.node].payoff_),
                    options_.max_uncertainty)
        /\ \A c \in {scan(node_cache_, run.node, 1)} :
              /\ is_null(c.nodes[run.node].payoff_)
              /\ \A m \in Successors(node_cache_, run.node) : c.nodes[m].visited_

\* node m had no payoff resolved up to max_uncertainty in the cache nc0, or
\* was not in it
Open(nc0, m) ==
    \/ m > Len(nc0.nodes)
    \/ ~ProbLeq(uncertainty(nc0.nodes[m].payoff_), options_.max_uncertainty)

\* the nodes that the nodes of S reach in the cache nc over at most k
\* successor references, each leaving a node that was open in nc0
RECURSIVE Within(_, _, _, _)
Within(nc, nc0, S, k) ==
    IF k = 0 THEN S
    ELSE Within(nc, nc0,
                S \cup UNION {Successors(nc, m) : m \in {x \in S : Open(nc0, x)}}, k - 1)

\* the successors of node n are in the cache: n is terminal, or holds a
\* successor, or is a decision node whose state allows neither option
Materialized(nc, n) ==
    \/ nc.nodes[n].kind = "terminal"
    \/ Successors(nc, n) # {}
    \/ /\ nc.nodes[n].kind = "decide"
       /\ LeadOverCap(nc.nodes[n].state)
       /\ SpinsThirdPlace(nc.nodes[n].state)

\* C36: after a pass with depth budget d, every node that the root reaches
\* over fewer than d successor references, along a path whose nodes were not
\* resolved before the pass, has its successors in the cache, whatever the
\* order of the branches and whatever longer path reaches the node first.
C36_DepthCoverage ==
    op = "pass" =>
        \A n \in Within(node_cache_, cache0, {run.node}, Budgets[run.passes] - 1) :
            Open(cache0, n) => Materialized(node_cache_, n)















====
